---- MODULE Spec2Model ----
(***************************************************************************)
(* The reference transaction of git-ref's file store                       *)
(* (git-ref/src/store/file/transaction.rs): several actors each run one    *)
(* transaction against one store.  The store is a map from reference name  *)
(* to file content plus a map from reference name to its lock file; the    *)
(* transaction is the code's Transaction struct with the position of the   *)
(* running call.  Every filesystem operation of the code is one step.      *)
(* Two more parts stand beside it, each with a specification of its own:   *)
(* the directory creation of git-tempfile (SpecCreateDir) and the          *)
(* arguments of a fetch in git-protocol (SpecFetch).                       *)
(***************************************************************************)
EXTENDS Naturals, Integers, Sequences, FiniteSets, TLC

\* Longest edit batch handed to Store::transaction.
MaxEdits == 2
\* How often an acquisition with backoff tries again before it gives up.
MaxRetries == 1

\* The independent actors; each opens at most one transaction.
Actors == {"A1", "A2"}

(***************************************************************************)
(* Option<T> as a sequence of length 0 or 1.                               *)
(***************************************************************************)
None == <<>>
Some(x) == <<x>>
IsSome(o) == Len(o) = 1
IsNone(o) == Len(o) = 0
Unwrap(o) == o[1]

(***************************************************************************)
(* Bytes are numbers 0..255, byte strings are sequences of them.           *)
(***************************************************************************)
\* b"ref: "
RefPrefix == <<114, 101, 102, 58, 32>>
\* b"\n"
Newline == <<10>>

\* Reference names "a" and "b", and "m" as the name a symbolic target names.
NameA == <<97>>
NameB == <<98>>
NameM == <<109>>
Names == {NameA, NameB}

\* An object id, shortened to two bytes (0xab 0x12).
H1 == <<171, 18>>

Peeled(id) == [kind |-> "Peeled", val |-> id]
Symbolic(name) == [kind |-> "Symbolic", val |-> name]

HexDigit(n) == IF n < 10 THEN 48 + n ELSE 87 + n

RECURSIVE to_hex(_)
to_hex(bytes) ==
    IF bytes = <<>> THEN <<>>
    ELSE <<HexDigit(Head(bytes) \div 16), HexDigit(Head(bytes) % 16)>> \o to_hex(Tail(bytes))

IsHexDigit(c) == c \in 48..57 \/ c \in 97..102
HexValue(c) == IF c <= 57 THEN c - 48 ELSE c - 87

RECURSIVE from_hex(_)
from_hex(hex) ==
    IF Len(hex) < 2 THEN <<>>
    ELSE <<16 * HexValue(hex[1]) + HexValue(hex[2])>> \o from_hex(SubSeq(hex, 3, Len(hex)))

StartsWith(s, p) == Len(s) >= Len(p) /\ SubSeq(s, 1, Len(p)) = p

\* The reference file format: hex id and newline, or "ref: ", name and newline.
encode(target) ==
    IF target.kind = "Peeled" THEN to_hex(target.val) \o Newline
    ELSE RefPrefix \o target.val \o Newline

Ok(v) == [ok |-> TRUE, err |-> "", val |-> v]
Err(e) == [ok |-> FALSE, err |-> e, val |-> None]

\* file::Reference::try_from_path: the store's decode path, for the format above.
decode(buf) ==
    LET n == Len(buf)
        p == Len(RefPrefix)
    IN  IF StartsWith(buf, RefPrefix)
        THEN IF n > p + 1 /\ buf[n] = Newline[1]
                /\ \A k \in (p + 1)..(n - 1) : buf[k] # Newline[1]
             THEN Ok(Some(Symbolic(SubSeq(buf, p + 1, n - 1))))
             ELSE Err("ReferenceDecode")
        ELSE IF n = 2 * Len(H1) + 1 /\ buf[n] = Newline[1]
                /\ \A k \in 1..(n - 1) : IsHexDigit(buf[k])
             THEN Ok(Some(Peeled(from_hex(SubSeq(buf, 1, n - 1)))))
             ELSE Err("ReferenceDecode")

(***************************************************************************)
(* Nothing made yet of create_dir and of the fetch arguments.              *)
(***************************************************************************)
NoIter == [pc |-> "none", cursors |-> <<>>, yielded |-> <<>>]

\* No Arguments of a fetch made yet.
NoArguments ==
    [pc |-> "none", version |-> "V1", stateful |-> FALSE, args |-> <<>>, haves |-> <<>>,
     added |-> <<>>, ids |-> 0, out |-> <<>>]

(***************************************************************************)
(* The edits a caller can hand in.                                         *)
(***************************************************************************)
FailModes == {"Immediately", "AfterDurationWithBackoff"}

Update(name, previous, new) ==
    [name |-> name, change |-> "Update", previous |-> previous, new |-> Some(new)]
Delete(name) ==
    [name |-> name, change |-> "Delete", previous |-> None, new |-> None]

NewTargets == {Peeled(H1), Symbolic(NameM)}
Expected == {None, Some(Peeled(H1))}

RefEdits ==
    {Update(n, p, t) : n \in Names, p \in Expected, t \in NewTargets}
        \cup {Delete(n) : n \in Names}

\* The edits of actors that contend with each other: plain symbolic updates.
PlainEdits == {Update(n, None, Symbolic(NameM)) : n \in Names}

RECURSIVE SeqsOfLen(_, _)
SeqsOfLen(S, n) ==
    IF n = 0 THEN {<<>>}
    ELSE {Append(s, e) : s \in SeqsOfLen(S, n - 1), e \in S}

Batches(S) == UNION {SeqsOfLen(S, n) : n \in 0..MaxEdits}

VARIABLES
    refs,       \* reference name -> Option(content of the reference file)
    lockfile,   \* reference name -> Option(the lock file at that path)
    tx,         \* actor -> its transaction and the position of its call
    before,     \* actor -> refs when its transaction was opened
    foreign,    \* actor -> refs as the other actors left them
    refs0,      \* refs of the initial state
    dirs,       \* create_dir: the directories that exist
    iter,       \* create_dir: the Iter and what its calls of next have yielded
    fetch       \* fetch: the Arguments, the transport and the requests sent

\* The reference store and the transactions.
store_vars == <<refs, lockfile, tx, before, foreign, refs0>>
\* The directory creation of git-tempfile.
create_dir_vars == <<dirs, iter>>
\* The arguments of a fetch in git-protocol.
fetch_vars == <<fetch>>

vars == <<refs, lockfile, tx, before, foreign, refs0, dirs, iter, fetch>>


(***************************************************************************)
(* struct Edit and struct Transaction, with the locals of the running call *)
(***************************************************************************)
\* Edit { update, lock: None, parent_index: None }
Edit(update) == [update |-> update, lock |-> FALSE]


\* The marker of an edit is gone.
Unlocked(e) == [e EXCEPT !.lock = FALSE]

\* No transaction opened yet.
NoTransaction ==
    [pc |-> "idle", state |-> "Open", call |-> "none", updates |-> <<>>, i |-> 0,
     existing_ref |-> Ok(None), lock |-> FALSE, lock_fail_mode |-> "Immediately",
     retries |-> 0, outcome |-> "", first_name |-> None, at |-> "",
     edits |-> <<>>, again |-> FALSE, tried |-> <<>>, auto |-> FALSE]

\* An actor that takes no part in the run.
Absent == [NoTransaction EXCEPT !.pc = "absent"]

\* Store::transaction
Transaction(edits, lock) ==
    [NoTransaction EXCEPT !.pc = "open", !.updates = [k \in 1..Len(edits) |-> Edit(edits[k])],
                          !.lock_fail_mode = lock, !.edits = edits]

NameAt(t, k) == t.updates[k].update.name
Current(t) == t.updates[t.i]

\* The reference names whose lock this transaction owns: the markers stored in
\* its edits and the lock file the running lock_ref_and_apply_change holds.
HeldNames(t) ==
    {NameAt(t, k) : k \in {j \in 1..Len(t.updates) : t.updates[j].lock}}
        \cup (IF t.lock THEN {NameAt(t, t.i)} ELSE {})

Holds(a, p) == p \in HeldNames(tx[a])

(***************************************************************************)
(* The lock resource (git-lock), as the transaction uses it.               *)
(***************************************************************************)
\* A fresh lock file, nothing staged yet.
NewLockFile(a) == [bytes |-> <<>>, closed |-> FALSE, owner |-> a]

\* git_lock::File::acquire_to_update_resource: what one attempt can return.
\* "Wait" is the backoff: the call has not returned yet.
acquire_to_update_resource(lf, p, mode, retries, io_errors) ==
    IF IsNone(lf[p]) THEN {"Ok"} \cup {"Err" : x \in io_errors \ {FALSE}}
    ELSE IF mode = "AfterDurationWithBackoff" /\ retries < MaxRetries THEN {"Wait"}
    ELSE {"Err"}

\* Dropping lock files or markers that were not committed: the lock file goes.
drop_locks(lf, names) == [p \in Names |-> IF p \in names THEN None ELSE lf[p]]

\* Marker::commit: the lock file is renamed onto the reference.
persist(rf, lf, p) == [rf EXCEPT ![p] = Some(Unwrap(lf[p]).bytes)]

\* RefEditsExt::assure_one_name_has_one_edit: the first name with two edits.
assure_one_name_has_one_edit(updates) ==
    LET dup == {k \in 1..Len(updates) :
                  \E j \in 1..Len(updates) : j # k /\ updates[j].update.name = updates[k].update.name}
    IN  IF dup = {} THEN None
        ELSE Some(updates[CHOOSE k \in dup : \A j \in dup : k <= j].update.name)

(***************************************************************************)
(* How a call ends.                                                        *)
(***************************************************************************)
\* The transaction is consumed: it is gone with everything it owned.
Ended(t, pc, outcome, first_name) ==
    [t EXCEPT !.pc = pc, !.at = t.pc, !.outcome = outcome, !.first_name = first_name,
              !.lock = FALSE, !.updates = [k \in 1..Len(t.updates) |-> Unlocked(t.updates[k])],
              !.existing_ref = Ok(None), !.retries = 0, !.again = FALSE]

\* Faulty variant: the markers stored in the edits outlive the failed call.
prepare_error_keeps_markers(t) == IF t.lock THEN {NameAt(t, t.i)} ELSE {}

\* `?` in prepare: prepare owns self, so the error return drops every lock.
prepare_error_releases(t) == HeldNames(t)
\* `?` in commit, after the marker of the failing edit was taken out.
commit_error_releases(t) == HeldNames(t)
\* A panic unwinds the call: the transaction and the locals are dropped.
panic_releases(t) == HeldNames(t)
\* Faulty variant: the markers are kept alive.
into_edits_leaks(t) == {}

\* into_edits keeps the RefEdits and drops the rest of each Edit.
into_edits_releases(t) == HeldNames(t)

\* refs as the actors other than `a` see their own work undone or not: every
\* change `a` makes to a reference file is a foreign change to the others.
ForeignAfter(a, new_refs) ==
    [b \in Actors |->
        IF b = a THEN foreign[b]
        ELSE [p \in Names |-> IF new_refs[p] # refs[p] THEN new_refs[p] ELSE foreign[b][p]]]

\* Faulty variant: a failing commit puts the references back as they were.
commit_rolls_back(a, rf) == before[a]

\* `lock.commit()?` returns the error: what the loop has published stays.
commit_error_refs(a, rf) == rf

\* The call of transaction t returns Err(err).
FailFrom(a, t, err, first_name) ==
    /\ tx' = [tx EXCEPT ![a] = Ended(t, "failed", err, first_name)]
    /\ lockfile' = drop_locks(lockfile,
                      IF t.pc = "publish" THEN commit_error_releases(t)
                      ELSE prepare_error_releases(t))
    /\ refs' = IF t.pc = "publish" THEN commit_error_refs(a, refs) ELSE refs
    /\ foreign' = ForeignAfter(a, refs')
    /\ UNCHANGED <<before, refs0>>

Fail(a, err, first_name) == FailFrom(a, tx[a], err, first_name)

Panic(a) ==
    /\ tx' = [tx EXCEPT ![a] = Ended(tx[a], "panicked", "panic", None)]
    /\ lockfile' = drop_locks(lockfile, panic_releases(tx[a]))
    /\ UNCHANGED <<refs, before, foreign, refs0>>


(***************************************************************************)
(* Transaction::prepare and Transaction::commit, entered                   *)
(***************************************************************************)
\* Faulty variant: the loop starts without the duplicate check.
no_duplicate_check(updates) == None

\* prepare, State::Open: the duplicate check comes before the loop.
first_duplicate(updates) == assure_one_name_has_one_edit(updates)

\* Faulty variant: commit on State::Open returns once the transaction is
\* prepared, without its own loops.
commit_open_returns(t) ==
    [t EXCEPT !.state = "Prepared", !.i = 1, !.retries = 0, !.existing_ref = Ok(None),
              !.pc = IF t.call = "commit" THEN "done" ELSE "prepared",
              !.at = IF t.call = "commit" THEN "publish" ELSE @,
              !.outcome = IF t.call = "commit" THEN "Ok" ELSE @,
              !.call = IF t.call = "commit" THEN "commit" ELSE "none"]

\* The loop of prepare is over: self.state = State::Prepared.  Inside commit
\* the recursive call `self.prepare()?.commit()` goes on with the first loop.
Prepared(t) ==
    [t EXCEPT !.state = "Prepared", !.i = 1, !.retries = 0, !.existing_ref = Ok(None),
              !.pc = IF t.call = "commit" THEN "publish" ELSE "prepared",
              !.call = IF t.call = "commit" THEN "commit" ELSE "none"]

\* Faulty variant: the loop is left after its first turn.
loop_ends_early(t) == Prepared(t)

\* The next turn of `for edit in self.updates.iter_mut()` in prepare.
NextEdit(t) ==
    IF t.i < Len(t.updates)
    THEN [t EXCEPT !.i = t.i + 1, !.pc = "read", !.retries = 0, !.existing_ref = Ok(None)]
    ELSE Prepared(t)

Alone(a) == \A b \in Actors \ {a} : tx[b].pc = "absent"

\* prepare on State::Open, called directly or from commit; `auto` notes that
\* it was commit that called it, for a transaction that runs alone: there the
\* outcomes of the two ways to commit are compared.
PrepareOpen(a, call) ==
    LET t == [tx[a] EXCEPT !.call = call, !.auto = (call = "commit" /\ Alone(a))]
        dup == first_duplicate(t.updates)
    IN  IF IsSome(dup)
        THEN FailFrom(a, t, "DuplicateRefEdits", dup)
        ELSE /\ tx' = [tx EXCEPT ![a] = NextEdit([t EXCEPT !.i = 0])]
             /\ UNCHANGED <<refs, lockfile, before, foreign, refs0>>

\* An actor that runs alone hands in every kind of edit; actors that run side by
\* side hand in plain symbolic updates.
EditsOf(a) == IF Alone(a) THEN Batches(RefEdits) ELSE Batches(PlainEdits)

\* Whether a filesystem operation fails with an I/O error: it can, for an actor
\* that runs alone.
IoErrors(a) == IF Alone(a) THEN BOOLEAN ELSE {FALSE}

\* Store::transaction
transaction(a) ==
    /\ tx[a].pc = "idle"
    /\ \E edits \in EditsOf(a), lock \in FailModes :
          tx' = [tx EXCEPT ![a] = Transaction(edits, lock)]
    /\ before' = [before EXCEPT ![a] = refs]
    /\ UNCHANGED <<refs, lockfile, foreign, refs0>>
    /\ UNCHANGED <<create_dir_vars, fetch_vars>>

\* Transaction::into_edits; dropping the transaction releases the same way.
into_edits(a) ==
    /\ tx[a].pc \in {"open", "prepared"}
    /\ tx' = [tx EXCEPT ![a] = Ended(tx[a], "dropped", "", None)]
    /\ lockfile' = drop_locks(lockfile, into_edits_releases(tx[a]))
    /\ UNCHANGED <<refs, before, foreign, refs0>>
    /\ UNCHANGED <<create_dir_vars, fetch_vars>>

\* Faulty variant: the loop of State::Open runs once more.
prepare_runs_again(t) == NextEdit([t EXCEPT !.i = 0, !.call = "prepare"])

\* `State::Prepared => self`
prepare_prepared(t) == t

\* Transaction::prepare; `again` notes that it was called on State::Prepared.
prepare(a) ==
    /\ tx[a].pc \in {"open", "prepared"}
    /\ IF tx[a].state = "Prepared"
       THEN /\ tx' = [tx EXCEPT ![a] = [prepare_prepared(tx[a]) EXCEPT !.again = TRUE]]
            /\ UNCHANGED <<refs, lockfile, before, foreign, refs0>>
       ELSE PrepareOpen(a, "prepare")
    /\ UNCHANGED <<create_dir_vars, fetch_vars>>

\* Transaction::commit
commit(a) ==
    /\ tx[a].pc \in {"open", "prepared"}
    /\ IF tx[a].state = "Prepared"
       THEN /\ tx' = [tx EXCEPT ![a] = [tx[a] EXCEPT !.pc = "publish", !.call = "commit", !.i = 1,
                                                    !.again = FALSE]]
            /\ UNCHANGED <<refs, lockfile, before, foreign, refs0>>
       ELSE PrepareOpen(a, "commit")
    /\ UNCHANGED <<create_dir_vars, fetch_vars>>

(***************************************************************************)
(* Transaction::lock_ref_and_apply_change, one filesystem operation a step *)
(***************************************************************************)
\* Faulty variant: content that does not decode counts as no reference.
corrupt_is_absent(content, io_error) ==
    IF io_error THEN Err("Io")
    ELSE IF IsNone(content) \/ ~decode(Unwrap(content)).ok THEN Ok(None)
    ELSE decode(Unwrap(content))

\* store.ref_contents and Reference::try_from_path, kept as a Result.
read_existing(content, io_error) ==
    IF io_error THEN Err("Io")
    ELSE IF IsNone(content) THEN Ok(None)
    ELSE decode(Unwrap(content))

\* The assertion, then the read of the reference as it is now.
ref_contents(a) ==
    /\ tx[a].pc = "read"
    /\ IF Current(tx[a]).lock
       THEN Panic(a)
       ELSE /\ \E io_error \in IoErrors(a) :
                  tx' = [tx EXCEPT ![a] =
                            [tx[a] EXCEPT !.existing_ref =
                                              read_existing(refs[NameAt(tx[a], tx[a].i)], io_error),
                                          !.pc = "acquire"]]
            /\ UNCHANGED <<refs, lockfile, before, foreign, refs0>>
    /\ UNCHANGED <<create_dir_vars, fetch_vars>>

\* Faulty variant: the error of the acquisition is not propagated.
acquired_despite_error(res) == res \in {"Ok", "Err"}

\* `acquire_to_update_resource(..)?`: the code goes on with a lock only on Ok.
acquired(res) == res = "Ok"

\* Faulty variant: the loop of prepare goes on with the next edit.
acquire_error_skips(a, t) ==
    /\ tx' = [tx EXCEPT ![a] = NextEdit(t)]
    /\ UNCHANGED <<refs, lockfile, before, foreign, refs0>>

\* Faulty variant: the acquisition is tried again, as often as it fails.
acquire_error_retries(a, t) ==
    /\ tx' = [tx EXCEPT ![a] = t]
    /\ UNCHANGED <<refs, lockfile, before, foreign, refs0>>

\* `acquire_to_update_resource(..)?` and the `?` of the loop in prepare: the
\* first error of an acquisition is the result of prepare.
acquire_error(a, t) == FailFrom(a, t, "LockAcquire", None)

\* `tried` notes the names an acquisition was called for, in the order of the calls.
Tried(tried, p) ==
    IF \E k \in 1..Len(tried) : tried[k] = p THEN tried ELSE Append(tried, p)

\* Change::Delete is todo!(); Change::Update acquires the lock.
acquire(a) ==
    LET p == NameAt(tx[a], tx[a].i)
        t == [tx[a] EXCEPT !.tried = Tried(@, p)]
    IN  /\ tx[a].pc = "acquire"
        /\ IF Current(t).update.change = "Delete"
           THEN Panic(a)
           ELSE \E res \in acquire_to_update_resource(lockfile, p, t.lock_fail_mode, t.retries,
                                                        IoErrors(a)) :
                   IF acquired(res)
                   THEN /\ lockfile' = [lockfile EXCEPT ![p] = Some(NewLockFile(a))]
                        /\ tx' = [tx EXCEPT ![a] = [t EXCEPT !.lock = TRUE, !.pc = "previous"]]
                        /\ UNCHANGED <<refs, before, foreign, refs0>>
                   ELSE IF res = "Wait"
                   THEN /\ tx' = [tx EXCEPT ![a] = [t EXCEPT !.retries = t.retries + 1]]
                        /\ UNCHANGED <<refs, lockfile, before, foreign, refs0>>
                   ELSE acquire_error(a, t)
        /\ UNCHANGED <<create_dir_vars, fetch_vars>>

\* Faulty variant: what was read is not recorded.
forget_previous(previous, existing) == previous

\* previous = None and a reference read: *previous = Some(reference.target()).
record_previous(previous, existing) ==
    IF IsSome(existing) THEN existing ELSE previous

\* `match previous`: Some(_) is todo!(); None takes what was read, `?` first.
previous(a) ==
    LET t == tx[a]
    IN  /\ t.pc = "previous"
        /\ IF IsSome(Current(t).update.previous)
           THEN Panic(a)
           ELSE IF ~t.existing_ref.ok
           THEN Fail(a, t.existing_ref.err, None)
           ELSE /\ tx' = [tx EXCEPT ![a] =
                             [t EXCEPT !.updates[t.i].update.previous =
                                           record_previous(Current(t).update.previous,
                                                           t.existing_ref.val),
                                       !.pc = "write"]]
                /\ UNCHANGED <<refs, lockfile, before, foreign, refs0>>
        /\ UNCHANGED <<create_dir_vars, fetch_vars>>


\* Faulty variant: the new value is written into the reference file itself.
staged_in_place == "ref"

\* `lock.with_mut(|file| ..)`: the new value is written into the lock file.
staged_in == "lock"

\* oid.as_bytes(), or b"ref: " and then name.as_ref(): the write_all calls.
first_chunk(new) == IF new.kind = "Peeled" THEN new.val ELSE RefPrefix
staged_bytes(new) == IF new.kind = "Peeled" THEN new.val ELSE RefPrefix \o new.val

\* One write_all of `chunk` for the edit of `p`.
Stage(a, p, chunk, next_pc) ==
    /\ tx' = [tx EXCEPT ![a].pc = next_pc]
    /\ IF staged_in = "lock"
       THEN /\ lockfile' = [lockfile EXCEPT ![p] =
                               Some([Unwrap(@) EXCEPT !.bytes = @ \o chunk])]
            /\ UNCHANGED <<refs, foreign>>
       ELSE /\ refs' = [refs EXCEPT ![p] =
                           Some((IF tx[a].pc = "write" \/ IsNone(@) THEN <<>> ELSE Unwrap(@)) \o chunk)]
            /\ foreign' = ForeignAfter(a, refs')
            /\ UNCHANGED lockfile
    /\ UNCHANGED <<before, refs0>>

\* The first write_all of the closure.
write(a) ==
    LET t == tx[a]
        new == Unwrap(Current(t).update.new)
    IN  /\ t.pc = "write"
        /\ \E io_error \in IoErrors(a) :
              IF io_error THEN Fail(a, "Io", None)
              ELSE Stage(a, NameAt(t, t.i), first_chunk(new),
                         IF new.kind = "Peeled" THEN "close" ELSE "write_name")
        /\ UNCHANGED <<create_dir_vars, fetch_vars>>

\* Target::Symbolic: `.and_then(|_| file.write_all(name.as_ref()))`.
write_name(a) ==
    LET t == tx[a]
        new == Unwrap(Current(t).update.new)
    IN  /\ t.pc = "write_name"
        /\ \E io_error \in IoErrors(a) :
              IF io_error THEN Fail(a, "Io", None)
              ELSE Stage(a, NameAt(t, t.i), new.val, "close")
        /\ UNCHANGED <<create_dir_vars, fetch_vars>>

\* Faulty variant: the marker is not stored in the edit.
without_lock(e) == e

\* `change.lock = Some(lock)`
with_lock(e) == [e EXCEPT !.lock = TRUE]

\* `lock.close()?`, then the marker is stored in the edit.
close(a) ==
    LET t == tx[a]
        p == NameAt(t, t.i)
    IN  /\ t.pc = "close"
        /\ \E io_error \in IoErrors(a) :
              IF io_error THEN Fail(a, "Io", None)
              ELSE /\ lockfile' = [lockfile EXCEPT ![p] = Some([Unwrap(@) EXCEPT !.closed = TRUE])]
                   /\ tx' = [tx EXCEPT ![a] =
                                NextEdit([t EXCEPT !.updates[t.i] = with_lock(@), !.lock = FALSE])]
                   /\ UNCHANGED <<refs, before, foreign, refs0>>
        /\ UNCHANGED <<create_dir_vars, fetch_vars>>

(***************************************************************************)
(* Transaction::commit, State::Prepared                                    *)
(***************************************************************************)
\* One turn of the first loop: take the marker and commit it.
publish(a) ==
    LET t == tx[a]
        e == Current(t)
        p == e.update.name
        next == [t EXCEPT !.updates[t.i].lock = FALSE, !.i = t.i + 1]
    IN  /\ t.pc = "publish"
        /\ t.i <= Len(t.updates)
        /\ IF e.update.change = "Delete"
           THEN /\ tx' = [tx EXCEPT ![a] = next]
                /\ UNCHANGED <<refs, lockfile, before, foreign, refs0>>
           ELSE IF ~e.lock
           THEN Panic(a)
           ELSE IF Unwrap(e.update.new).kind # "Symbolic"
           THEN Panic(a)
           ELSE \E io_error \in IoErrors(a) :
                   IF io_error \/ IsNone(lockfile[p])
                   THEN Fail(a, "Io", None)
                   ELSE /\ refs' = persist(refs, lockfile, p)
                        /\ lockfile' = [lockfile EXCEPT ![p] = None]
                        /\ tx' = [tx EXCEPT ![a] = next]
                        /\ foreign' = ForeignAfter(a, refs')
                        /\ UNCHANGED <<before, refs0>>
        /\ UNCHANGED <<create_dir_vars, fetch_vars>>

\* The second loop (Change::Delete is todo!()) and the return of the edits.
commit_return(a) ==
    LET t == tx[a]
    IN  /\ t.pc = "publish"
        /\ t.i > Len(t.updates)
        /\ IF \E k \in 1..Len(t.updates) : t.updates[k].update.change = "Delete"
           THEN Panic(a)
           ELSE /\ tx' = [tx EXCEPT ![a] = Ended(t, "done", "Ok", None)]
                /\ UNCHANGED <<refs, lockfile, before, foreign, refs0>>
        /\ UNCHANGED <<create_dir_vars, fetch_vars>>

(***************************************************************************)
(* The specification                                                       *)
(***************************************************************************)
\* What a reference file of the store holds at the start.
InitialContents == {None, Some(encode(Peeled(H1)))}

\* A lock file a process outside the model holds from the start.
OutsideLock == [bytes |-> <<>>, closed |-> FALSE, owner |-> "outside"]

\* A reference file whose content is no target: "x".
CorruptContent == <<120>>

\* Either every actor runs, or one runs alone, against locks held outside and
\* reference files that may be corrupt.
Init ==
    /\ \/ /\ tx = [a \in Actors |-> NoTransaction]
          /\ lockfile = [p \in Names |-> None]
          /\ refs \in [Names -> InitialContents]
       \/ /\ tx = [a \in Actors |-> IF a = "A1" THEN NoTransaction ELSE Absent]
          /\ lockfile \in [Names -> {None, Some(OutsideLock)}]
          /\ refs \in [Names -> InitialContents \cup {Some(CorruptContent)}]
    /\ before = [a \in Actors |-> refs]
    /\ foreign = [a \in Actors |-> refs]
    /\ refs0 = refs
    /\ dirs = {}
    /\ iter = NoIter
    /\ fetch = NoArguments

Next ==
    \E a \in Actors :
        \/ transaction(a)
        \/ into_edits(a)
        \/ prepare(a)
        \/ commit(a)
        \/ ref_contents(a)
        \/ acquire(a)
        \/ previous(a)
        \/ write(a)
        \/ write_name(a)
        \/ close(a)
        \/ publish(a)
        \/ commit_return(a)

Spec == Init /\ [][Next]_vars

\* A call that was entered runs on: the steps of actor a inside prepare and commit.
Running(a) ==
    \/ ref_contents(a)
    \/ acquire(a)
    \/ previous(a)
    \/ write(a)
    \/ write_name(a)
    \/ close(a)
    \/ publish(a)
    \/ commit_return(a)

\* The same program with that scheduling stated: whether and when a caller
\* opens a transaction or calls prepare, commit or into_edits is left open.
\* It starts where every actor runs: the contending transactions.
InitContending == Init /\ \A a \in Actors : tx[a].pc = "idle"

SpecFair == InitContending /\ [][Next]_vars /\ \A a \in Actors : WF_vars(Running(a))


(***************************************************************************)
(* git-tempfile/src/create_dir.rs: the iterator that creates a directory   *)
(* and its missing ancestors                                               *)
(***************************************************************************)
\* The deepest target path.
MaxDepth == 3
\* How many calls of next a run makes: enough to create the deepest target
\* from the directory the paths start in and to see the None that follows.
MaxCalls == 7

\* The target and its ancestors: path k is "d1/../dk", path 0 is the empty path.
Paths == 0..MaxDepth

\* Path::parent: the empty path has none.
parent(path) == IF path = 0 THEN None ELSE Some(path - 1)

\* A std::io::ErrorKind that is neither AlreadyExists nor NotFound.
OtherKinds == {"PermissionDenied"}

\* std::fs::create_dir(path): "Ok" or the kind of the error.  The empty path
\* names nothing, a path that exists cannot be created again, and one whose
\* parent is missing is not found (0 in ds: the directory the paths start in
\* exists).
create_dir(ds, path, kind) ==
    IF path = 0 THEN "NotFound"
    ELSE IF path \in ds THEN "AlreadyExists"
    ELSE IF path - 1 \notin ds THEN "NotFound"
    ELSE kind

\* What one call of next has yielded, with what it tried before.
Item(item, dir, err, tried, res) ==
    [item |-> item, dir |-> dir, err |-> err, tried |-> tried, res |-> res]

\* Iter::new
new(target) == [pc |-> "ready", cursors |-> <<target>>, yielded |-> <<>>]

Pop(cursors) == SubSeq(cursors, 1, Len(cursors) - 1)

\* Iter::fail_permanently: self.cursors.clear() and the Permanent error.
fail_permanently(it, dir, err, res) ==
    [it EXCEPT !.cursors = <<>>,
               !.yielded = Append(@, Item("Permanent", Some(dir), err, Some(dir), res))]

\* Faulty variant: a directory that exists already ends the iteration as a
\* permanent failure.
next_for_exists_fails(it, cursor, res) ==
    LET rest == Pop(it.cursors)
    IN  IF res = "Ok"
        THEN [it EXCEPT !.cursors = rest,
                        !.yielded = Append(@, Item("Ok", Some(cursor), "", Some(cursor), res))]
        ELSE IF res = "NotFound"
        THEN IF IsNone(parent(cursor))
             THEN fail_permanently(it, cursor, "InvalidInput", res)
             ELSE [it EXCEPT !.cursors = rest \o <<cursor, Unwrap(parent(cursor))>>,
                             !.yielded = Append(@, Item("Intermediate", None, res,
                                                        Some(cursor), res))]
        ELSE fail_permanently(it, cursor, res, res)

\* Iter::next for the cursor popped, `res` being what create_dir returned.
next_for(it, cursor, res) ==
    LET rest == Pop(it.cursors)
    IN  IF res \in {"Ok", "AlreadyExists"}
        THEN [it EXCEPT !.cursors = rest,
                        !.yielded = Append(@, Item("Ok", Some(cursor), "", Some(cursor), res))]
        ELSE IF res = "NotFound"
        THEN IF IsNone(parent(cursor))
             THEN fail_permanently(it, cursor, "InvalidInput", res)
             ELSE [it EXCEPT !.cursors = rest \o <<cursor, Unwrap(parent(cursor))>>,
                             !.yielded = Append(@, Item("Intermediate", None, res,
                                                        Some(cursor), res))]
        ELSE [it EXCEPT !.pc = "panicked", !.cursors = rest,
                        !.yielded = Append(@, Item("panic", None, res, Some(cursor), res))]

\* Iter::new(target)
iter_new ==
    /\ iter.pc = "none"
    /\ \E target \in Paths : iter' = new(target)
    /\ UNCHANGED dirs
    /\ UNCHANGED <<store_vars, fetch_vars>>

\* Iter::next
next ==
    /\ iter.pc = "ready"
    /\ Len(iter.yielded) < MaxCalls
    /\ IF iter.cursors = <<>>
       THEN /\ iter' = [iter EXCEPT !.yielded = Append(@, Item("None", None, "", None, ""))]
            /\ UNCHANGED dirs
       ELSE LET cursor == iter.cursors[Len(iter.cursors)]
            IN  \E kind \in {"Ok"} \cup OtherKinds :
                   LET res == create_dir(dirs, cursor, kind)
                   IN  /\ iter' = next_for(iter, cursor, res)
                       /\ dirs' = IF res = "Ok" THEN dirs \cup {cursor} ELSE dirs
    /\ UNCHANGED <<store_vars, fetch_vars>>

\* Another actor creates a directory whose parent exists.
other_creates ==
    /\ \E d \in Paths \ dirs :
          /\ d > 0 => d - 1 \in dirs
          /\ dirs' = dirs \cup {d}
    /\ UNCHANGED iter
    /\ UNCHANGED <<store_vars, fetch_vars>>

\* Another actor removes an empty directory.
other_removes ==
    /\ \E d \in dirs :
          /\ d + 1 \notin dirs
          /\ dirs' = dirs \ {d}
    /\ UNCHANGED iter
    /\ UNCHANGED <<store_vars, fetch_vars>>

\* No store, no transaction.
NoStore ==
    /\ refs = [p \in Names |-> None]
    /\ lockfile = [p \in Names |-> None]
    /\ tx = [a \in Actors |-> Absent]
    /\ before = [a \in Actors |-> refs]
    /\ foreign = [a \in Actors |-> refs]
    /\ refs0 = refs

\* The directories that exist at the start: the path down to some depth, or none.
InitCreateDir ==
    /\ NoStore
    /\ dirs \in {0..(n - 1) : n \in 0..(MaxDepth + 1)}
    /\ iter = NoIter
    /\ fetch = NoArguments

NextCreateDir ==
    \/ iter_new
    \/ next
    \/ other_creates
    \/ other_removes

SpecCreateDir == InitCreateDir /\ [][NextCreateDir]_vars

\* The same iterator where the directory the paths start in exists and no
\* other actor removes a directory; other actors still create them.
InitBelowExisting == InitCreateDir /\ 0 \in dirs

NextKept ==
    \/ iter_new
    \/ next
    \/ other_creates

SpecCreateDirKept == InitBelowExisting /\ [][NextKept]_vars


(***************************************************************************)
(* git-protocol: fetch::Arguments and its send, as the tests of            *)
(* fetch/tests/arguments.rs use it and pin down what it transmits          *)
(***************************************************************************)
\* How many haves a negotiation adds.
MaxHaves == 3

Versions == {"V1", "V2"}

\* One pkt-line of a request: "want <id>", "have <id>", "done", the flush packet.
Line(kind, id) == [kind |-> kind, id |-> id]

\* The arguments that are no haves.
ArgKinds == {"want", "shallow", "deepen", "deepen-since", "deepen-not"}

\* What Protocol::V2 sends ahead of the arguments: the command, the delimiter
\* packet and the features it always lists.
V2Header ==
    <<Line("command=fetch", 0), Line("delim", 0), Line("thin-pack", 0),
      Line("include-tag", 0), Line("ofs-delta", 0)>>

\* fetch::Arguments::new and the transport it is sent through.
Arguments(version, stateful) ==
    [NoArguments EXCEPT !.pc = "ready", !.version = version, !.stateful = stateful]

\* Where V1 puts an argument: wants first, shallows next, the rest as called.
Rank(line) == IF line.kind = "want" THEN 1 ELSE IF line.kind = "shallow" THEN 2 ELSE 3

RECURSIVE Insert(_, _)
Insert(args, line) ==
    IF args = <<>> THEN <<line>>
    ELSE IF Rank(Head(args)) > Rank(line) THEN <<line>> \o args
    ELSE <<Head(args)>> \o Insert(Tail(args), line)

\* want, shallow, deepen, deepen_since, deepen_not: one more argument.
prefixed(f, kind) ==
    [f EXCEPT !.args = IF f.version = "V1" THEN Insert(@, Line(kind, 0))
                       ELSE Append(@, Line(kind, 0)),
              !.added = Append(@, Line(kind, 0))]

\* Faulty variant: the arguments are kept only for a stateless transport.
retained_if_stateless(version, stateful, args) == IF stateful THEN <<>> ELSE args

\* The arguments send keeps for the next request: all of them, but none on a
\* stateful V1 transport.
retained_state(version, stateful, args) ==
    IF version = "V1" /\ stateful THEN <<>> ELSE args

\* self.haves.drain(..): the haves are sent once.
drained(haves) == <<>>

\* The request send writes.
request(f, add_done_argument) ==
    IF f.version = "V1"
    THEN f.args \o (IF f.args # <<>> THEN <<Line("flush", 0)>> ELSE <<>>) \o f.haves
            \o <<IF add_done_argument THEN Line("done", 0) ELSE Line("flush", 0)>>
    ELSE V2Header \o f.args \o f.haves
            \o (IF add_done_argument THEN <<Line("done", 0)>> ELSE <<>>) \o <<Line("flush", 0)>>

\* arguments_v1 / arguments_v2 and transport(out, stateful)
arguments_new ==
    /\ fetch.pc = "none"
    /\ \E version \in Versions, stateful \in BOOLEAN : fetch' = Arguments(version, stateful)
    /\ UNCHANGED <<store_vars, create_dir_vars>>

\* An argument that is no have, each once and before the first request.
argument(kind) ==
    /\ fetch.pc = "ready"
    /\ fetch.out = <<>>
    /\ \A k \in 1..Len(fetch.added) : fetch.added[k].kind # kind
    /\ fetch' = prefixed(fetch, kind)
    /\ UNCHANGED <<store_vars, create_dir_vars>>

want == argument("want")
shallow == argument("shallow")
deepen == argument("deepen")
deepen_since == argument("deepen-since")
deepen_not == argument("deepen-not")

\* Arguments::have, with an id not used before.
have ==
    /\ fetch.pc = "ready"
    /\ fetch.ids < MaxHaves
    /\ fetch' = [fetch EXCEPT !.haves = Append(@, Line("have", fetch.ids + 1)),
                              !.ids = @ + 1]
    /\ UNCHANGED <<store_vars, create_dir_vars>>

\* Arguments::send(transport, add_done_argument); without haves it is the last.
send ==
    /\ fetch.pc = "ready"
    /\ \E add_done_argument \in BOOLEAN :
          /\ fetch.haves = <<>> => add_done_argument
          /\ fetch' = [fetch EXCEPT
                          !.out = Append(@, request(fetch, add_done_argument)),
                          !.args = retained_state(fetch.version, fetch.stateful, @),
                          !.haves = drained(@),
                          !.pc = IF add_done_argument THEN "done" ELSE "ready"]
    /\ UNCHANGED <<store_vars, create_dir_vars>>

InitFetch ==
    /\ NoStore
    /\ dirs = {}
    /\ iter = NoIter
    /\ fetch = NoArguments

NextFetch ==
    \/ arguments_new
    \/ want
    \/ shallow
    \/ deepen
    \/ deepen_since
    \/ deepen_not
    \/ have
    \/ send

SpecFetch == InitFetch /\ [][NextFetch]_vars


(***************************************************************************)
(* Vocabulary of the properties                                            *)
(***************************************************************************)
\* The positions inside prepare; a call that ended records where in `at`.
PreparePcs == {"open", "read", "acquire", "previous", "write", "write_name", "close"}

FailedInPrepare(a) == tx[a].pc = "failed" /\ tx[a].at \in PreparePcs

\* The lock file at p exists and was created by a.
OwnsLockFile(a, p) == IsSome(lockfile[p]) /\ Unwrap(lockfile[p]).owner = a

\* a has left nothing behind: no lock file, and every reference file as the
\* others (or the initial state) left it; alone, as it was when a started.
LeftNoTrace(a) ==
    /\ \A p \in Names : ~OwnsLockFile(a, p) /\ refs[p] = foreign[a][p]
    /\ Alone(a) => refs = before[a]

HasDuplicateName(edits) ==
    \E j, k \in 1..Len(edits) : j < k /\ edits[j].name = edits[k].name

\* The target a reference file holds, None when there is no such file.
TargetOf(content) == IF IsNone(content) THEN None ELSE decode(Unwrap(content)).val

\* a has published its k-th edit.
Published(a, k) ==
    \/ tx[a].pc = "done"
    \/ tx[a].pc = "publish" /\ tx[a].i > k
    \/ tx[a].pc \in {"failed", "panicked"} /\ tx[a].at = "publish" /\ tx[a].i > k

(***************************************************************************)
(* C1: atomic prepare.  When prepare has returned an error, whichever step *)
(* of whichever edit failed, the transaction owns no lock file (so nothing *)
(* staged is left either), also none of the edits locked earlier in the    *)
(* call, and it has changed no reference file.                             *)
(***************************************************************************)
C1_AtomicPrepare ==
    \A a \in Actors : FailedInPrepare(a) => HeldNames(tx[a]) = {} /\ LeftNoTrace(a)

\* The second edit's lock could not be acquired after the first was locked.
C1_Witness ==
    \E a \in Actors :
        /\ FailedInPrepare(a)
        /\ tx[a].outcome = "LockAcquire"
        /\ tx[a].i = 2
        /\ IsSome(lockfile[NameAt(tx[a], 2)])
        /\ IsNone(lockfile[NameAt(tx[a], 1)])

(***************************************************************************)
(* C2: duplicate rejection.  A batch with two edits of one name makes      *)
(* prepare, and commit on an Open transaction, fail with DuplicateRefEdits *)
(* naming a name that occurs twice, at the entry of prepare: before any    *)
(* reference is read or lock acquired, leaving the store as it was.        *)
(***************************************************************************)
C2_DuplicateRejection ==
    \A a \in Actors :
        (HasDuplicateName(tx[a].edits) /\ tx[a].call # "none") =>
            /\ tx[a].pc = "failed"
            /\ tx[a].outcome = "DuplicateRefEdits"
            /\ tx[a].at = "open"
            /\ IsSome(tx[a].first_name)
            /\ \E j, k \in 1..Len(tx[a].edits) :
                  /\ j < k
                  /\ tx[a].edits[j].name = Unwrap(tx[a].first_name)
                  /\ tx[a].edits[k].name = Unwrap(tx[a].first_name)
            /\ LeftNoTrace(a)

\* commit on an Open transaction with a duplicate failed that way.
C2_Witness ==
    \E a \in Actors :
        /\ HasDuplicateName(tx[a].edits)
        /\ tx[a].call = "commit"
        /\ tx[a].outcome = "DuplicateRefEdits"


(***************************************************************************)
(* C3: mutual exclusion.  At every instant at most one transaction owns    *)
(* the lock of a reference, the lock file there is its own, and a step     *)
(* that changes a reference file whose lock is held is a step of the       *)
(* holder.                                                                 *)
(***************************************************************************)
OneHolder ==
    \A p \in Names :
        /\ Cardinality({a \in Actors : Holds(a, p)}) <= 1
        /\ \A a \in Actors : Holds(a, p) => OwnsLockFile(a, p)

OnlyHolderWrites ==
    \A a \in Actors, p \in Names :
        (Holds(a, p) /\ refs'[p] # refs[p]) => tx'[a] # tx[a]

C3_MutualExclusion == []OneHolder /\ [][OnlyHolderWrites]_vars

\* One actor holds the lock of p, and the other's acquisition of p failed.
C3_Witness ==
    \E a, b \in Actors, p \in Names :
        /\ a # b
        /\ Holds(a, p)
        /\ tx[b].pc = "failed"
        /\ tx[b].outcome = "LockAcquire"
        /\ NameAt(tx[b], tx[b].i) = p

(***************************************************************************)
(* C4: reader atomicity.  What a reader finds in a reference file is, in   *)
(* every state, the content of the initial state or the whole of what an   *)
(* edit of that reference staged, and the latter only once that edit is    *)
(* published: never a part of it, never a value still in a lock file.      *)
(***************************************************************************)
C4_ReaderAtomicity ==
    \A p \in Names :
        \/ refs[p] = refs0[p]
        \/ \E a \in Actors : \E k \in 1..Len(tx[a].edits) :
              /\ tx[a].edits[k].name = p
              /\ tx[a].edits[k].change = "Update"
              /\ refs[p] = Some(staged_bytes(Unwrap(tx[a].edits[k].new)))
              /\ Published(a, k)

\* A lock file holds half of a symbolic value while the reference under it is
\* as it was, and another reference has been published.
C4_Witness ==
    \E p, q \in Names :
        /\ IsSome(lockfile[p])
        /\ Unwrap(lockfile[p]).bytes = RefPrefix
        /\ refs[p] = refs0[p]
        /\ refs[q] # refs0[q]

(***************************************************************************)
(* C5: the Prepared state.  Between a successful prepare and commit every  *)
(* Update edit holds a closed lock with its whole new value staged, and    *)
(* the transaction has changed no reference file: each is as the others    *)
(* left it, and for an actor alone as it was before prepare.               *)
(***************************************************************************)
C5_PreparedState ==
    \A a \in Actors :
        tx[a].pc = "prepared" =>
            /\ tx[a].state = "Prepared"
            /\ \A k \in 1..Len(tx[a].updates) :
                  LET e == tx[a].updates[k]
                  IN  e.update.change = "Update" =>
                         /\ e.lock
                         /\ OwnsLockFile(a, e.update.name)
                         /\ Unwrap(lockfile[e.update.name]).closed
                         /\ Unwrap(lockfile[e.update.name]).bytes
                               = staged_bytes(Unwrap(e.update.new))
            /\ \A p \in Names : refs[p] = foreign[a][p]
            /\ Alone(a) => refs = before[a]

\* A Prepared transaction of two updates, one of a reference that exists.
C5_Witness ==
    \E a \in Actors :
        /\ tx[a].pc = "prepared"
        /\ Len(tx[a].updates) = 2
        /\ \E k \in 1..2 : IsSome(refs[NameAt(tx[a], k)])

(***************************************************************************)
(* C6: rollback on abandon.  A Prepared transaction given up without       *)
(* commit owns no lock file afterwards and has changed no reference file,  *)
(* so the paths it had locked are free for other actors.                   *)
(***************************************************************************)
C6_RollbackOnAbandon ==
    \A a \in Actors :
        (tx[a].pc = "dropped" /\ tx[a].state = "Prepared") =>
            /\ HeldNames(tx[a]) = {}
            /\ LeftNoTrace(a)
            /\ \A k \in 1..Len(tx[a].updates) :
                  LET p == NameAt(tx[a], k)
                  IN  IsNone(lockfile[p]) \/ \E b \in Actors \ {a} : OwnsLockFile(b, p)

\* After the abandon another actor holds the lock of a path of the batch.
C6_Witness ==
    \E a, b \in Actors :
        /\ a # b
        /\ tx[a].pc = "dropped"
        /\ tx[a].state = "Prepared"
        /\ \E k \in 1..Len(tx[a].updates) : Holds(b, NameAt(tx[a], k))

(***************************************************************************)
(* C7: previous-value discovery.  For an Update handed in with previous =  *)
(* None, on a reference no other actor changed since the transaction was   *)
(* opened, the edit commit returns has previous = None when the reference  *)
(* did not exist then, and its target of then when it did.                 *)
(***************************************************************************)
C7_PreviousDiscovery ==
    \A a \in Actors :
        tx[a].pc = "done" =>
            \A k \in 1..Len(tx[a].edits) :
                LET p == tx[a].edits[k].name
                IN  (IsNone(tx[a].edits[k].previous) /\ foreign[a][p] = before[a][p]) =>
                        tx[a].updates[k].update.previous = TargetOf(before[a][p])

\* commit returned an edit with the previous target it discovered, and one
\* with none.
C7_Witness ==
    \E a \in Actors :
        /\ tx[a].pc = "done"
        /\ \E k \in 1..Len(tx[a].edits) :
              /\ IsNone(tx[a].edits[k].previous)
              /\ tx[a].updates[k].update.previous = Some(Peeled(H1))
        /\ \E k \in 1..Len(tx[a].edits) :
              /\ IsNone(before[a][tx[a].edits[k].name])
              /\ IsNone(tx[a].updates[k].update.previous)


(***************************************************************************)
(* C8: compare-and-swap.  For an Update handed in with previous =          *)
(* Some(expected): prepare stops at the comparison only when the target on *)
(* disk differs from expected, and then it leaves nothing behind; when the *)
(* two are the same it goes on with the edit, and it goes on only then.    *)
(***************************************************************************)
StoppedAtPrevious(a, k) ==
    tx[a].pc \in {"failed", "panicked"} /\ tx[a].at = "previous" /\ tx[a].i = k

PastPrevious(a, k) ==
    \/ tx[a].pc \in {"write", "write_name", "close"} /\ tx[a].i = k
    \/ tx[a].pc \in {"read", "acquire", "previous", "write", "write_name", "close"} /\ tx[a].i > k
    \/ tx[a].state = "Prepared"

C8_CompareAndSwap ==
    \A a \in Actors : \A k \in 1..Len(tx[a].edits) :
        LET e == tx[a].edits[k]
            matches == TargetOf(before[a][e.name]) = e.previous
        IN  (e.change = "Update" /\ IsSome(e.previous)) =>
               /\ StoppedAtPrevious(a, k) => ~matches /\ LeftNoTrace(a)
               /\ PastPrevious(a, k) => matches

(***************************************************************************)
(* C9: committing a peeled update.  For a reference that does not exist    *)
(* and the batch of one Update with new = Peeled(H) and previous = None,   *)
(* a commit that meets no I/O or lock error returns the edit with previous *)
(* = None, and the reference file holds the lowercase hex of H and one     *)
(* newline.                                                                *)
(***************************************************************************)
C9_PeeledCommit ==
    \A a \in Actors :
        LET t == tx[a]
        IN  (/\ Len(t.edits) = 1
             /\ t.edits[1].change = "Update"
             /\ Unwrap(t.edits[1].new).kind = "Peeled"
             /\ IsNone(t.edits[1].previous)
             /\ IsNone(before[a][t.edits[1].name])
             /\ foreign[a][t.edits[1].name] = before[a][t.edits[1].name]
             /\ t.call = "commit"
             /\ t.pc \in {"done", "panicked"}) =>
                /\ t.pc = "done"
                /\ refs[t.edits[1].name] = Some(encode(Unwrap(t.edits[1].new)))
                /\ IsNone(t.updates[1].update.previous)

(***************************************************************************)
(* C10: round trip.  For every target T, the bytes prepare has staged for  *)
(* an Update with new = T, in the closed lock file and in the reference    *)
(* file once published, decode to T through the store's decode path.       *)
(***************************************************************************)
C10_RoundTrip ==
    \A a \in Actors : \A k \in 1..Len(tx[a].updates) :
        LET e == tx[a].updates[k]
            p == e.update.name
        IN  e.update.change = "Update" =>
               /\ (e.lock /\ OwnsLockFile(a, p)) =>
                     decode(Unwrap(lockfile[p]).bytes) = Ok(e.update.new)
               /\ (Published(a, k) /\ refs[p] = Some(staged_bytes(Unwrap(e.update.new)))) =>
                     decode(Unwrap(refs[p])) = Ok(e.update.new)

(***************************************************************************)
(* C11: update before delete.  For the batch of one Update (a plain        *)
(* symbolic one, so that nothing else stands in its way) and one Delete,   *)
(* in either order, commit carries both out: it does not abort, the        *)
(* reference of the Delete is removed only once the Update is published,   *)
(* and it is removed when commit has returned.                             *)
(***************************************************************************)
C11_UpdateBeforeDelete ==
    \A a \in Actors : \A j, k \in 1..Len(tx[a].edits) :
        LET t == tx[a]
            u == t.edits[j]
            d == t.edits[k]
        IN  (/\ Len(t.edits) = 2
             /\ u.change = "Update" /\ IsNone(u.previous) /\ Unwrap(u.new).kind = "Symbolic"
             /\ d.change = "Delete"
             /\ u.name # d.name
             /\ IsSome(before[a][d.name])
             /\ t.call = "commit") =>
                /\ t.pc # "panicked"
                /\ IsNone(refs[d.name]) => Published(a, j)
                /\ t.pc = "done" => IsNone(refs[d.name])

(***************************************************************************)
(* C12: idempotent prepare.  A prepare called on a Prepared transaction    *)
(* (the only step out of "prepared" that is neither commit nor a drop)     *)
(* hands the transaction back as it is, edits, locks and state, and        *)
(* touches neither a reference file nor a lock file: after prepare and     *)
(* prepare everything is as after one prepare.                             *)
(***************************************************************************)
C12_IdempotentPrepare ==
    [][\A a \in Actors :
          (/\ tx[a].pc = "prepared"
           /\ tx'[a] # tx[a]
           /\ tx'[a].pc \notin {"publish", "dropped"}) =>
              /\ tx'[a] = [tx[a] EXCEPT !.again = TRUE]
              /\ refs' = refs
              /\ lockfile' = lockfile]_vars

\* prepare was called on a Prepared transaction of two locked updates.
C12_Witness ==
    \E a \in Actors :
        /\ tx[a].pc = "prepared"
        /\ tx[a].again
        /\ Len(tx[a].updates) = 2
        /\ \A k \in 1..2 : tx[a].updates[k].lock

(***************************************************************************)
(* C13: no rollback in commit.  When committing the lock of the k-th edit  *)
(* fails, commit returns that error and stops: the references of the       *)
(* updates before k hold their new values, those of the edits from k on    *)
(* are as they were before the transaction, and no lock file is left.      *)
(***************************************************************************)
C13_NoRollbackInCommit ==
    \A a \in Actors :
        LET t == tx[a]
        IN  (t.pc = "failed" /\ t.at = "publish") =>
               /\ t.outcome = "Io"
               /\ \A j \in 1..Len(t.edits) :
                     LET e == t.edits[j]
                     IN  e.change = "Update" =>
                            IF j < t.i
                            THEN refs[e.name] = Some(staged_bytes(Unwrap(e.new)))
                            ELSE /\ refs[e.name] = foreign[a][e.name]
                                 /\ Alone(a) => refs[e.name] = before[a][e.name]
               /\ \A p \in Names : ~OwnsLockFile(a, p)

\* The second lock could not be committed after the first reference changed.
C13_Witness ==
    \E a \in Actors :
        /\ tx[a].pc = "failed"
        /\ tx[a].at = "publish"
        /\ tx[a].i = 2
        /\ refs[NameAt(tx[a], 1)] # before[a][NameAt(tx[a], 1)]
        /\ refs[NameAt(tx[a], 2)] = before[a][NameAt(tx[a], 2)]

(***************************************************************************)
(* C14: a corrupt reference is an error, not absence.  For an Update with  *)
(* previous = None on a reference whose content does not decode (and that  *)
(* no other actor has replaced): what the edit has read is an error, never *)
(* "no reference"; prepare does not go on to stage the edit; and it stops  *)
(* there by returning ReferenceDecode (Io when the read itself failed)     *)
(* with the lock it acquired for the edit, and every other, released.      *)
(***************************************************************************)
Undecodable(content) == IsSome(content) /\ ~decode(Unwrap(content)).ok

C14_CorruptIsError ==
    \A a \in Actors : \A k \in 1..Len(tx[a].edits) :
        LET t == tx[a]
            e == t.edits[k]
        IN  (/\ e.change = "Update"
             /\ IsNone(e.previous)
             /\ Undecodable(before[a][e.name])
             /\ foreign[a][e.name] = before[a][e.name]) =>
                /\ (t.pc \in {"acquire", "previous"} /\ t.i = k) =>
                      t.existing_ref \in {Err("ReferenceDecode"), Err("Io")}
                /\ ~PastPrevious(a, k)
                /\ StoppedAtPrevious(a, k) =>
                      /\ t.pc = "failed"
                      /\ t.outcome \in {"ReferenceDecode", "Io"}
                      /\ IsNone(t.updates[k].update.previous)
                      /\ HeldNames(t) = {}
                      /\ \A p \in Names : ~OwnsLockFile(a, p)

\* prepare returned ReferenceDecode for its second edit, on a corrupt file, and
\* neither its lock nor the first edit's is left.
C14_Witness ==
    \E a \in Actors :
        /\ tx[a].pc = "failed"
        /\ tx[a].at = "previous"
        /\ tx[a].outcome = "ReferenceDecode"
        /\ tx[a].i = 2
        /\ refs[NameAt(tx[a], 2)] = Some(CorruptContent)
        /\ \A p \in Names : IsNone(lockfile[p])

(***************************************************************************)
(* C17: lock order and fail-fast.  The names prepare has called the        *)
(* acquisition for are, in the order of the calls, a prefix of the names   *)
(* of the batch; inside the loop every edit before the current one is      *)
(* locked and none after it; and when the acquisition for edit k fails,    *)
(* prepare returns LockAcquire for that edit with no acquisition called    *)
(* for an edit after k.                                                    *)
(***************************************************************************)
LoopPcs == PreparePcs \ {"open"}

C17_LockOrderFailFast ==
    \A a \in Actors :
        LET t == tx[a]
        IN  /\ Len(t.tried) <= Len(t.edits)
            /\ \A k \in 1..Len(t.tried) : t.tried[k] = t.edits[k].name
            /\ t.pc \in LoopPcs =>
                  /\ Len(t.tried) \in {t.i - 1, t.i}
                  /\ \A k \in 1..Len(t.updates) : t.updates[k].lock <=> k < t.i
            /\ (t.pc = "failed" /\ t.at \in LoopPcs) =>
                  /\ Len(t.tried) = t.i
                  /\ t.at = "acquire" => t.outcome = "LockAcquire"

\* The acquisition for the first of two edits failed: the second was not tried.
C17_Witness ==
    \E a \in Actors :
        /\ tx[a].pc = "failed"
        /\ tx[a].at = "acquire"
        /\ Len(tx[a].edits) = 2
        /\ tx[a].tried = <<tx[a].edits[1].name>>

(***************************************************************************)
(* C18: the recorded previous under concurrency.  At the step that         *)
(* publishes an Update handed in with previous = None, the previous value  *)
(* recorded for it, which commit returns, is the value the reference file  *)
(* holds under the lock, the one the publish replaces: none when there is  *)
(* no file, and the file's target when there is one.                       *)
(***************************************************************************)
C18_PreviousUnderConcurrency ==
    [][\A a \in Actors :
          LET t == tx[a]
              p == NameAt(t, t.i)
              recorded == Current(t).update.previous
          IN  (/\ t.pc = "publish"
               /\ tx'[a].pc = "publish"
               /\ tx'[a].i = t.i + 1
               /\ Current(t).update.change = "Update"
               /\ IsNone(t.edits[t.i].previous)) =>
                  /\ IsNone(recorded) <=> IsNone(refs[p])
                  /\ (IsSome(refs[p]) /\ decode(Unwrap(refs[p])).ok) =>
                        recorded = decode(Unwrap(refs[p])).val]_vars

(***************************************************************************)
(* C19: the lock of an edit.  Whatever prepare and commit calls are made,  *)
(* the assertion "locks can only be acquired once" holds where it is       *)
(* evaluated, the acquisition is called for an edit that owns no lock, the *)
(* expectation "each ref is locked" holds where the first loop of commit   *)
(* takes a lock, that loop has taken the locks of exactly the edits it has *)
(* passed, and when commit has returned no lock and no lock file is left.  *)
(***************************************************************************)
C19_LockLifecycle ==
    \A a \in Actors :
        LET t == tx[a]
        IN  /\ t.pc \in {"read", "acquire"} =>
                  /\ ~Current(t).lock
                  /\ ~t.lock
                  /\ ~OwnsLockFile(a, NameAt(t, t.i))
            /\ ~(t.pc = "panicked" /\ t.at = "read")
            /\ t.pc = "publish" =>
                  \A k \in 1..Len(t.updates) :
                      t.updates[k].update.change = "Update" =>
                         /\ t.updates[k].lock <=> k >= t.i
                         /\ k >= t.i => OwnsLockFile(a, NameAt(t, k))
            /\ t.pc = "done" =>
                  /\ HeldNames(t) = {}
                  /\ \A p \in Names : ~OwnsLockFile(a, p)

\* prepare, prepare again, then commit: the first loop of commit has taken the
\* lock of the first edit and is about to take the second.
C19_Witness ==
    \E a \in Actors :
        /\ tx[a].pc = "publish"
        /\ Len(tx[a].updates) = 2
        /\ tx[a].i = 2
        /\ ~tx[a].updates[1].lock
        /\ tx[a].updates[2].lock

(***************************************************************************)
(* C20: no deadlock between contending transactions.  Under either failure *)
(* policy and whatever the order of the names in the batches, an actor     *)
(* inside the loop of prepare gets out of it, prepare returning a Prepared *)
(* transaction or an error (or aborting); and a prepare that has returned  *)
(* an error owns no lock file, so that nobody waits for it.                *)
(***************************************************************************)
C20_NoDeadlock ==
    /\ \A a \in Actors : (tx[a].pc \in LoopPcs) ~> (tx[a].pc \notin LoopPcs)
    /\ [](\A a \in Actors : FailedInPrepare(a) => \A p \in Names : ~OwnsLockFile(a, p))

\* Two actors that retry with backoff each hold the lock the other one is
\* about to acquire.
C20_Witness ==
    \E a, b \in Actors :
        /\ a # b
        /\ tx[a].pc = "acquire" /\ tx[a].i = 2
        /\ tx[b].pc = "acquire" /\ tx[b].i = 2
        /\ tx[a].lock_fail_mode = "AfterDurationWithBackoff"
        /\ tx[b].lock_fail_mode = "AfterDurationWithBackoff"
        /\ Holds(a, NameAt(tx[b], 2))
        /\ Holds(b, NameAt(tx[a], 2))

(***************************************************************************)
(* C15: permanent failure of the directory creation.  When create_dir      *)
(* fails with a kind other than AlreadyExists and NotFound, or with        *)
(* NotFound for a path without parent, that call of next yields Permanent  *)
(* with the directory it tried; no creation is tried afterwards and every  *)
(* later call yields None; and Permanent is yielded in no other case.      *)
(***************************************************************************)
PermanentCase(c) ==
    /\ IsSome(c.tried)
    /\ \/ c.res \notin {"Ok", "AlreadyExists", "NotFound"}
       \/ c.res = "NotFound" /\ IsNone(parent(Unwrap(c.tried)))

C15_PermanentFailure ==
    /\ iter.pc # "panicked"
    /\ \A k \in 1..Len(iter.yielded) :
          LET c == iter.yielded[k]
          IN  /\ PermanentCase(c) =>
                    /\ c.item = "Permanent"
                    /\ c.dir = c.tried
                    /\ \A j \in (k + 1)..Len(iter.yielded) :
                          /\ iter.yielded[j].item = "None"
                          /\ IsNone(iter.yielded[j].tried)
                    /\ iter.cursors = <<>>
              /\ c.item = "Permanent" => PermanentCase(c)

(***************************************************************************)
(* C16: the fetch arguments over the rounds.  Of the haves added, one that *)
(* is still waiting is in no request and every other is in exactly one     *)
(* request, once; an argument that is no have is in every request when the *)
(* transport is stateless or the protocol is V2, and in the first request  *)
(* only on a stateful V1 transport.                                        *)
(***************************************************************************)
Occurrences(req, line) == Cardinality({k \in 1..Len(req) : req[k] = line})

Waiting(line) == \E k \in 1..Len(fetch.haves) : fetch.haves[k] = line

C16_ArgumentsOverRounds ==
    /\ \A id \in 1..fetch.ids :
          LET line == Line("have", id)
              sent == {r \in 1..Len(fetch.out) : Occurrences(fetch.out[r], line) > 0}
          IN  IF Waiting(line) THEN sent = {}
              ELSE /\ Cardinality(sent) = 1
                   /\ \A r \in sent : Occurrences(fetch.out[r], line) = 1
    /\ \A k \in 1..Len(fetch.added) : \A r \in 1..Len(fetch.out) :
          Occurrences(fetch.out[r], fetch.added[k])
              = IF r = 1 \/ ~fetch.stateful \/ fetch.version = "V2" THEN 1 ELSE 0

\* Three requests, each with a have of its own, after a want and a deepen.
C16_Witness ==
    /\ Len(fetch.out) = 3
    /\ Len(fetch.added) >= 2
    /\ \A r \in 1..3 : Occurrences(fetch.out[r], Line("have", r)) = 1

(***************************************************************************)
(* C21: progress of the directory creation.  For a target below an         *)
(* existing directory, while no other actor removes a directory and no     *)
(* creation is refused for a reason other than AlreadyExists and NotFound: *)
(* every item is Intermediate, Ok or None; Intermediate is yielded at most *)
(* once per path, for a missing parent, so at most once per missing        *)
(* ancestor; the Ok items go one level at a time from the shallowest       *)
(* directory to the target, whether the directory was created by this call *)
(* or existed already, and their directories exist; the iterator is done   *)
(* exactly when Ok(target) was yielded, nothing but None follows it, and   *)
(* None is yielded at no other time; and it is done within 2 * depth - 1   *)
(* calls.                                                                  *)
(***************************************************************************)
Items(kind) == {k \in 1..Len(iter.yielded) : iter.yielded[k].item = kind}

\* The target the iterator was made for: what its first call tried.
Target == Unwrap(iter.yielded[1].tried)

Refused == \E k \in 1..Len(iter.yielded) : iter.yielded[k].res \in OtherKinds

C21_CreateDirProgress ==
    (/\ Len(iter.yielded) > 0
     /\ Target > 0
     /\ ~Refused)
    => LET y == iter.yielded
           oks == Items("Ok")
           done == \E k \in oks : y[k].dir = Some(Target)
       IN  /\ \A k \in 1..Len(y) : y[k].item \in {"Intermediate", "Ok", "None"}
           /\ \A k \in Items("Intermediate") :
                  /\ y[k].res = "NotFound"
                  /\ Unwrap(y[k].tried) > 1
                  /\ \A j \in Items("Intermediate") : y[j].tried = y[k].tried => j = k
           /\ Cardinality(Items("Intermediate")) <= Target - 1
           /\ \A k \in oks :
                  /\ y[k].res \in {"Ok", "AlreadyExists"}
                  /\ y[k].dir = y[k].tried
                  /\ Unwrap(y[k].dir) \in dirs
                  /\ \A j \in oks :
                         (j > k /\ \A m \in oks : ~(k < m /\ m < j))
                             => Unwrap(y[j].dir) = Unwrap(y[k].dir) + 1
           /\ done <=> iter.cursors = <<>>
           /\ \A k \in oks : y[k].dir = Some(Target) =>
                  /\ \A j \in 1..Len(y) : j > k <=> y[j].item = "None"
                  /\ k <= 2 * Target - 1
                  /\ 0..Target \subseteq dirs
           /\ Items("None") # {} => done
           /\ Cardinality(Items("Intermediate") \cup oks) <= 2 * Target - 1

\* The deepest target from the directory the paths start in: two missing
\* parents discovered, one level found created by another actor, the others
\* created, Ok(target) and then None.
C21_Witness ==
    /\ Len(iter.yielded) = 6
    /\ iter.yielded[1].tried = Some(3)
    /\ Cardinality(Items("Intermediate")) = 2
    /\ \E k \in Items("Ok") : iter.yielded[k].res = "AlreadyExists"
    /\ \E k \in Items("Ok") : iter.yielded[k].res = "Ok"
    /\ iter.yielded[5].dir = Some(3)
    /\ iter.yielded[6].item = "None"
    /\ iter.cursors = <<>>

(***************************************************************************)
(* C22: auto-prepare equivalence.  For a transaction that runs alone, a    *)
(* call that has ended has the outcome that the store at the start, the    *)
(* edits and the point where it ended determine, and it is the same        *)
(* whether commit was called on State::Open or prepare was called first    *)
(* and commit on its result: the references are those of the start with    *)
(* the edits published before that point, which are none when the call     *)
(* ended inside prepare; the transaction owns no lock file; Ok returns the *)
(* edits with the previous values read; an error is the one of the step    *)
(* that failed.                                                            *)
(***************************************************************************)
Over(a) == tx[a].pc \in {"done", "failed", "panicked"}

\* How many edits were published when the call ended.
PublishedCount(a) == IF tx[a].at = "publish" THEN tx[a].i - 1 ELSE 0

\* The references of the start with the first n edits of a published.
RefsWith(a, n) ==
    [p \in Names |->
        IF \E k \in 1..n : tx[a].edits[k].name = p
        THEN LET k == CHOOSE k \in 1..n : tx[a].edits[k].name = p
             IN  Some(staged_bytes(Unwrap(tx[a].edits[k].new)))
        ELSE before[a][p]]

\* The edits as commit returns them: each with the value that was read.
ReturnedEdits(a) ==
    [k \in 1..Len(tx[a].edits) |->
        [tx[a].edits[k] EXCEPT !.previous = TargetOf(before[a][tx[a].edits[k].name])]]

\* The errors the step at `pc` can return.
ErrorsAt(pc) ==
    IF pc = "open" THEN {"DuplicateRefEdits"}
    ELSE IF pc = "acquire" THEN {"LockAcquire"}
    ELSE IF pc = "previous" THEN {"Io", "ReferenceDecode"}
    ELSE IF pc \in {"write", "write_name", "close", "publish"} THEN {"Io"}
    ELSE {}

OutcomeOf(a, auto) ==
    (tx[a].auto = auto) =>
        /\ refs = RefsWith(a, PublishedCount(a))
        /\ \A p \in Names : ~OwnsLockFile(a, p)
        /\ tx[a].pc = "done" =>
               /\ tx[a].outcome = "Ok"
               /\ tx[a].at = "publish"
               /\ PublishedCount(a) = Len(tx[a].edits)
               /\ [k \in 1..Len(tx[a].updates) |-> tx[a].updates[k].update] = ReturnedEdits(a)
        /\ tx[a].pc = "failed" =>
               /\ tx[a].outcome \in ErrorsAt(tx[a].at)
               /\ tx[a].at = "open" <=> HasDuplicateName(tx[a].edits)
               /\ tx[a].at = "open" =>
                      tx[a].first_name = assure_one_name_has_one_edit(tx[a].updates)
        /\ tx[a].pc = "panicked" => tx[a].at \in {"read", "acquire", "previous", "publish"}
        /\ tx[a].at \in PreparePcs => refs = before[a]

C22_AutoPrepare ==
    \A a \in Actors : (Alone(a) /\ Over(a)) =>
        /\ OutcomeOf(a, TRUE)
        /\ OutcomeOf(a, FALSE)

\* commit was called on State::Open, alone and with two edits: it prepared,
\* published both and returned them with the value read.
C22_Witness ==
    \E a \in Actors :
        /\ Alone(a)
        /\ tx[a].auto
        /\ tx[a].pc = "done"
        /\ Len(tx[a].edits) = 2
        /\ refs # before[a]
        /\ \E k \in 1..2 : IsSome(tx[a].updates[k].update.previous)

====
